---- MODULE Spec2Model ----
(***************************************************************************)
(* Model of the SFAR RFE antibioprophylaxie tools:                         *)
(*   - src/src/generate_api.py     (slugify, per-specialty endpoints)      *)
(*   - src/src/extract_rfe_atb.py  (PDF table extraction)                  *)
(*   - src/src/mcp_server_rfe.py   (MCP query tools)                       *)
(*                                                                         *)
(* A Python str is a sequence of characters.  A character is written as a  *)
(* one-character TLA+ string when it is printable ASCII and as "U+XXXX"    *)
(* (its code point) otherwise: "U+00E9" is e-acute, "U+0301" the combining *)
(* acute accent, "U+0152"/"U+0153" the OE ligature in upper and lower case.*)
(* Python's None is the value None, a sequence that is no string.          *)
(***************************************************************************)
EXTENDS Integers, Sequences, FiniteSets, TLC

VARIABLES
    \* generate_api.slugify
    slug_text, slug_result, slug_twice, slug_pc,
    \* extract_rfe_atb.identify_specialty
    page_num, specialty, class_pc,
    \* extract_rfe_atb.parse_table_to_records: the column resolution
    columns, col_found, col_pc,
    \* extract_rfe_atb.extract_rfe_data
    page_tables, tables, next_table, all_records, specialties, output, ex_pc,
    \* mcp_server_rfe: the persisted file, the last call and its response
    rfe_file, call, response, q_pc,
    \* generate_api: the Dataset read, specialites.json, specialite/*.json
    api_data, specialites_json, specialite_files, api_pc,
    \* mcp_server_rfe: the persisted file and the invocations in flight
    server_file, invocations

slugVars == <<slug_text, slug_result, slug_twice, slug_pc>>
classVars == <<page_num, specialty, class_pc>>
colVars == <<columns, col_found, col_pc>>
exVars == <<page_tables, tables, next_table, all_records, specialties, output, ex_pc>>
queryVars == <<rfe_file, call, response, q_pc>>
apiVars == <<api_data, specialites_json, specialite_files, api_pc>>
serverVars == <<server_file, invocations>>

None == <<"<None>">>

(***************************************************************************)
(* Characters                                                              *)
(***************************************************************************)
AsciiUpper ==
    <<"A", "B", "C", "D", "E", "F", "G", "H", "I", "J", "K", "L", "M",
      "N", "O", "P", "Q", "R", "S", "T", "U", "V", "W", "X", "Y", "Z">>

AsciiLower ==
    <<"a", "b", "c", "d", "e", "f", "g", "h", "i", "j", "k", "l", "m",
      "n", "o", "p", "q", "r", "s", "t", "u", "v", "w", "x", "y", "z">>

AsciiDigits == {"0", "1", "2", "3", "4", "5", "6", "7", "8", "9"}

Range(s) == {s[i] : i \in DOMAIN s}

AsciiLetters == Range(AsciiUpper) \cup Range(AsciiLower)

\* Precomposed letters with a canonical decomposition: E-acute, e-acute,
\* e-grave.
Decomposable == {"U+00C9", "U+00E9", "U+00E8"}

\* Letters outside ASCII that no normal form splits: OE ligatures, beta.
OtherLetters == {"U+0152", "U+0153", "U+03B2"}

\* Unicode category Mn (non-spacing marks): combining grave and acute.
CombiningMarks == {"U+0300", "U+0301"}

\* Every character of the model, in code point order.
CodePointOrder ==
    <<"U+0009", "U+000A", " ", "'", "-", "/">>
        \o <<"0", "1", "2", "3", "4", "5", "6", "7", "8", "9">>
        \o AsciiUpper \o <<"_">> \o AsciiLower
        \o <<"U+00C9", "U+00E8", "U+00E9", "U+0152", "U+0153", "U+0300",
             "U+0301", "U+03B2">>

\* str.lower() on one character: the upper-case letters change.
LowerCase ==
    [c \in Range(CodePointOrder) |->
        IF \E i \in DOMAIN AsciiUpper : AsciiUpper[i] = c
        THEN AsciiLower[CHOOSE i \in DOMAIN AsciiUpper : AsciiUpper[i] = c]
        ELSE IF c = "U+00C9" THEN "U+00E9"
        ELSE IF c = "U+0152" THEN "U+0153"
        ELSE c]

LowerChar(c) == LowerCase[c]

\* str.lower()
Lower(s) == [i \in DOMAIN s |-> LowerChar(s[i])]

\* str.isalnum() on one character.
IsAlnum(c) ==
    c \in AsciiLetters \cup AsciiDigits \cup Decomposable \cup OtherLetters

\* unicodedata.normalize('NFD', c) for one character.
NFDChar(c) ==
    IF c = "U+00C9" THEN <<"E", "U+0301">>
    ELSE IF c = "U+00E9" THEN <<"e", "U+0301">>
    ELSE IF c = "U+00E8" THEN <<"e", "U+0300">>
    ELSE <<c>>

(***************************************************************************)
(* Strings                                                                 *)
(***************************************************************************)
\* The characters of an ASCII string literal.
Str(s) == [i \in 1..Len(s) |-> SubSeq(s, i, i)]

RECURSIVE Concat(_)
\* ''.join(parts)
Concat(parts) ==
    IF parts = <<>> THEN <<>> ELSE Head(parts) \o Concat(Tail(parts))

\* sub in s
Contains(sub, s) ==
    \E i \in 0..(Len(s) - Len(sub)) : SubSeq(s, i + 1, i + Len(sub)) = sub

RECURSIVE SplitFrom(_, _, _)
\* The segments of s between occurrences of sep, cur being the segment
\* collected so far.
SplitFrom(s, sep, cur) ==
    IF s = <<>> THEN <<cur>>
    ELSE IF Head(s) = sep THEN <<cur>> \o SplitFrom(Tail(s), sep, <<>>)
    ELSE SplitFrom(Tail(s), sep, Append(cur, Head(s)))

\* s.split(sep) for a one-character separator.
Split(s, sep) == SplitFrom(s, sep, <<>>)

\* filter(None, parts): the non-empty parts, in order.
FilterNonEmpty(parts) == SelectSeq(parts, LAMBDA p : p # <<>>)

RECURSIVE Join(_, _)
\* sep.join(parts)
Join(sep, parts) ==
    IF parts = <<>> THEN <<>>
    ELSE IF Len(parts) = 1 THEN Head(parts)
    ELSE Head(parts) \o <<sep>> \o Join(sep, Tail(parts))

RECURSIVE StringsUpTo(_, _)
\* Every string over alphabet of length at most n.
StringsUpTo(alphabet, n) ==
    IF n = 0 THEN {<<>>}
    ELSE LET shorter == StringsUpTo(alphabet, n - 1)
         IN  shorter \cup {Append(s, c) : s \in shorter, c \in alphabet}

(***************************************************************************)
(* generate_api.slugify                                                    *)
(***************************************************************************)
\* unicodedata.normalize('NFD', text)
NFD(text) == Concat([i \in DOMAIN text |-> NFDChar(text[i])])

\* ''.join(char for char in text if unicodedata.category(char) != 'Mn')
StripAccents(text) == SelectSeq(text, LAMBDA c : c \notin CombiningMarks)

\* ''.join(char if char.isalnum() else '-' for char in text)
Hyphenate(text) == [i \in DOMAIN text |-> IF IsAlnum(text[i]) THEN text[i] ELSE "-"]

\* '-'.join(filter(None, text.split('-')))
CollapseHyphens(text) == Join("-", FilterNonEmpty(Split(text, "-")))

\* slugify with the final collapse of hyphens left out.
slugify_nocollapse(text) == Hyphenate(Lower(StripAccents(NFD(text))))

slugify(text) == CollapseHyphens(Hyphenate(Lower(StripAccents(NFD(text)))))

\* "Chirurgie orthopedique", with its e-acute
S_ChirurgieOrthopedique ==
    Str("Chirurgie orthop") \o <<"U+00E9">> \o Str("dique")

S_chirurgie_orthopedique == Str("chirurgie-orthopedique")

\* "OEsophage et estomac", OE being the ligature
S_OEsophageEtEstomac == <<"U+0152">> \o Str("sophage et estomac")

S_oesophage_et_estomac == Str("oesophage-et-estomac")

MaxSlugLen == 3

SlugAlphabet == {"a", "B", "1", " ", "-", "U+00C9", "U+0301", "U+0152"}

SlugInputs ==
    StringsUpTo(SlugAlphabet, MaxSlugLen)
        \cup {S_ChirurgieOrthopedique, S_OEsophageEtEstomac}

SlugIdle ==
    /\ slug_text = <<>>
    /\ slug_result = None
    /\ slug_twice = None
    /\ slug_pc = "idle"

SlugInit ==
    /\ slug_text \in SlugInputs
    /\ slug_result = None
    /\ slug_twice = None
    /\ slug_pc = "start"

\* slug = slugify(text)
Slugify ==
    /\ slug_pc = "start"
    /\ slug_result' = slugify(slug_text)
    /\ slug_pc' = "once"
    /\ UNCHANGED <<slug_text, slug_twice>>

\* slugify(slug)
SlugifyAgain ==
    /\ slug_pc = "once"
    /\ slug_twice' = slugify(slug_result)
    /\ slug_pc' = "twice"
    /\ UNCHANGED <<slug_text, slug_result>>

(***************************************************************************)
(* extract_rfe_atb.identify_specialty                                      *)
(***************************************************************************)
S_NonClasse == Str("Non class") \o <<"U+00E9">>

S_Ophtalmologie == Str("Ophtalmologie")

\* The page -> specialty table, in declaration order.
specialty_pages ==
    << [start |-> 30, end |-> 40, specialty |-> Str("Neurochirurgie")],
       [start |-> 41, end |-> 45, specialty |-> Str("ORL")],
       [start |-> 46, end |-> 50, specialty |-> S_Ophtalmologie],
       [start |-> 51, end |-> 55, specialty |-> Str("Chirurgie maxillo-faciale")],
       [start |-> 56, end |-> 60, specialty |-> Str("Chirurgie cardiaque")],
       [start |-> 61, end |-> 65, specialty |-> Str("Chirurgie vasculaire")],
       [start |-> 66, end |-> 70, specialty |-> Str("Chirurgie thoracique")],
       [start |-> 71, end |-> 75, specialty |-> Str("Chirurgie plastique")],
       [start |-> 76, end |-> 80,
        specialty |-> Str("Chirurgie gyn") \o <<"U+00E9">> \o Str("cologique")],
       [start |-> 81, end |-> 85,
        specialty |-> Str("Obst") \o <<"U+00E9">> \o Str("trique")],
       [start |-> 86, end |-> 90, specialty |-> S_ChirurgieOrthopedique],
       [start |-> 91, end |-> 95, specialty |-> Str("Traumatologie")],
       [start |-> 96, end |-> 100, specialty |-> Str("Chirurgie digestive")],
       [start |-> 101, end |-> 105, specialty |-> Str("Chirurgie urologique")] >>

RECURSIVE ScanPagesExclusiveEnd(_, _)
\* The scan with the upper bound of each interval taken as exclusive.
ScanPagesExclusiveEnd(ranges, page) ==
    IF ranges = <<>> THEN S_NonClasse
    ELSE IF Head(ranges).start <= page /\ page < Head(ranges).end
         THEN Head(ranges).specialty
         ELSE ScanPagesExclusiveEnd(Tail(ranges), page)

RECURSIVE ScanPagesLoop(_, _)
\* for (start, end), specialty in specialty_pages.items(): ... return
ScanPagesLoop(ranges, page) ==
    IF ranges = <<>> THEN S_NonClasse
    ELSE IF Head(ranges).start <= page /\ page <= Head(ranges).end
         THEN Head(ranges).specialty
         ELSE ScanPagesLoop(Tail(ranges), page)

ScanPages(ranges, page) == ScanPagesLoop(ranges, page)

identify_specialty(page) == ScanPages(specialty_pages, page)

\* Pages -PagesBelow .. MaxPage, and a page far beyond every range.
PagesBelow == 2

MaxPage == 106

PageInputs == (-PagesBelow)..MaxPage \cup {999}

ClassIdle ==
    /\ page_num = 0
    /\ specialty = None
    /\ class_pc = "idle"

ClassInit ==
    /\ page_num \in PageInputs
    /\ specialty = None
    /\ class_pc = "start"

\* specialty = identify_specialty(df, page_num)
IdentifySpecialty ==
    /\ class_pc = "start"
    /\ specialty' = identify_specialty(page_num)
    /\ class_pc' = "done"
    /\ UNCHANGED page_num

(***************************************************************************)
(* extract_rfe_atb.parse_table_to_records: column_mapping, find_column     *)
(***************************************************************************)
Roles ==
    <<"acte", "antibiotique", "posologie", "alternative", "reinjection",
      "duree", "grade">>

S_Acte == Str("Acte")
S_Antibiotique == Str("Antibiotique")
S_ATB == Str("ATB")
S_Posologie == Str("Posologie")
S_Dose == Str("Dose")
S_Grade == Str("Grade")
S_page == Str("_page")

\* The aliases of each role, in declaration order.
column_mapping ==
    [acte |-> <<S_Acte, Str("Intervention"), Str("Type de chirurgie"),
                Str("Proc") \o <<"U+00E9">> \o Str("dure")>>,
     antibiotique |-> <<S_Antibiotique, S_ATB,
                        Str("Mol") \o <<"U+00E9">> \o Str("cule")>>,
     posologie |-> <<S_Posologie, S_Dose,
                     Str("Sch") \o <<"U+00E9">> \o Str("ma")>>,
     alternative |-> <<Str("Alternative"), Str("Si allergie"),
                       Str("Allergie ") \o <<"U+03B2">> \o Str("-lactamines")>>,
     reinjection |-> <<Str("R") \o <<"U+00E9">> \o Str("injection"),
                       Str("R") \o <<"U+00E9">> \o Str("-injection"),
                       Str("Dose suppl") \o <<"U+00E9">> \o Str("mentaire")>>,
     duree |-> <<Str("Dur") \o <<"U+00E9">> \o Str("e"),
                 Str("Dur") \o <<"U+00E9">> \o Str("e totale")>>,
     grade |-> <<S_Grade, Str("Niveau de preuve"), Str("Recommandation")>>]

\* if alias.lower() in col.lower()
AliasMatches(alias, col) == Contains(Lower(alias), Lower(col))

RECURSIVE FirstColumnWith(_, _)
\* for col in df.columns: if <alias matches col>: return col
\* (None when the loop ends without a match)
FirstColumnWith(cols, alias) ==
    IF cols = <<>> THEN None
    ELSE IF AliasMatches(alias, Head(cols)) THEN Head(cols)
    ELSE FirstColumnWith(Tail(cols), alias)

RECURSIVE FindByColumn(_, _)
\* The search with the loops exchanged: columns outside, aliases inside.
FindByColumn(cols, aliases) ==
    IF cols = <<>> THEN None
    ELSE IF \E k \in DOMAIN aliases : AliasMatches(aliases[k], Head(cols))
         THEN Head(cols)
         ELSE FindByColumn(Tail(cols), aliases)

RECURSIVE FindByAlias(_, _)
\* for alias in aliases: for col in df.columns: ... return col
\* return None
FindByAlias(cols, aliases) ==
    IF aliases = <<>> THEN None
    ELSE IF FirstColumnWith(cols, Head(aliases)) # None
         THEN FirstColumnWith(cols, Head(aliases))
         ELSE FindByAlias(cols, Tail(aliases))

find_column(cols, aliases) == FindByAlias(cols, aliases)

\* col_acte, col_atb, col_poso, col_alt, col_reinj, col_duree, col_grade
ResolveColumns(cols) ==
    [r \in Range(Roles) |-> find_column(cols, column_mapping[r])]

\* Header cells, as cleaned by normalize_text.
HeaderTexts ==
    {S_Acte, S_Dose, Str("POSOLOGIE"),
     Str("Dose suppl") \o <<"U+00E9">> \o Str("mentaire"),
     Str("DUR") \o <<"U+00C9">> \o Str("E"), Str("Site"), <<>>}

MaxCols == 3

\* df.columns: the header row followed by the '_page' column.
ColumnInputs ==
    {Append(h, S_page) : h \in StringsUpTo(HeaderTexts, MaxCols)}

ColIdle ==
    /\ columns = <<>>
    /\ col_found = None
    /\ col_pc = "idle"

ColInit ==
    /\ columns \in ColumnInputs
    /\ col_found = None
    /\ col_pc = "start"

\* The seven find_column calls of parse_table_to_records.
IdentifyColumns ==
    /\ col_pc = "start"
    /\ col_found' = ResolveColumns(columns)
    /\ col_pc' = "done"
    /\ UNCHANGED columns

(***************************************************************************)
(* extract_rfe_atb: normalize_text, extract_tables_from_pdf,               *)
(* parse_table_to_records, extract_rfe_data                                *)
(***************************************************************************)
\* The characters re's \s and str.strip() take for whitespace.
Whitespace == {" ", "U+0009", "U+000A"}

RECURSIVE CollapseWhitespace(_)
\* re.sub(r'\s+', ' ', text)
CollapseWhitespace(text) ==
    IF text = <<>> THEN <<>>
    ELSE IF Head(text) \in Whitespace
         THEN IF Tail(text) # <<>> /\ Head(Tail(text)) \in Whitespace
              THEN CollapseWhitespace(Tail(text))
              ELSE <<" ">> \o CollapseWhitespace(Tail(text))
         ELSE <<Head(text)>> \o CollapseWhitespace(Tail(text))

RECURSIVE LStrip(_)
LStrip(text) ==
    IF text # <<>> /\ Head(text) \in Whitespace THEN LStrip(Tail(text)) ELSE text

RECURSIVE RStrip(_)
RStrip(text) ==
    IF text # <<>> /\ text[Len(text)] \in Whitespace
    THEN RStrip(SubSeq(text, 1, Len(text) - 1))
    ELSE text

\* text.strip()
Strip(text) == RStrip(LStrip(text))

normalize_text(text) ==
    IF text = None \/ text = <<>> THEN <<>>
    ELSE Strip(CollapseWhitespace(text))

\* normalize_text(cell) if cell else ""
CleanCell(cell) ==
    IF cell = None \/ cell = <<>> THEN <<>> ELSE normalize_text(cell)

\* [[normalize_text(cell) if cell else "" for cell in row] for row in table]
CleanTable(rows) ==
    [i \in DOMAIN rows |-> [j \in DOMAIN rows[i] |-> CleanCell(rows[i][j])]]

\* pd.DataFrame(cleaned[1:], columns=cleaned[0]); df['_page'] = page_num + 1
\* A frame keeps its column labels (the '_page' label last), its data rows
\* (the cells under the header's labels) and the value of its '_page' column.
MakeDataFrame(cleaned, page_index) ==
    [columns |-> Append(cleaned[1], S_page),
     rows |-> Tail(cleaned),
     page |-> page_index + 1]

\* A pandas Series of cells: what row.get(col) gives when several columns
\* bear the label col.  It is no string.
Series(cells) == <<"<Series>">> \o Join("<,>", cells)

IsSeries(v) == v # <<>> /\ v[1] = "<Series>"

\* row.get(col): the cell under label col, a Series when the label is
\* borne by several columns.
RowGet(cols, row, col) ==
    LET at == {i \in DOMAIN row : cols[i] = col}
    IN  IF Cardinality(at) = 1 THEN row[CHOOSE i \in at : TRUE]
        ELSE Series(SelectSeq([i \in DOMAIN row |-> IF i \in at THEN row[i] ELSE None],
                              LAMBDA c : c # None))

\* row.get(col, "") if col else ""
FieldOrEmpty(cols, row, col) ==
    IF col # None /\ col # <<>> THEN RowGet(cols, row, col) ELSE <<>>

\* row.get(col) if col else None
FieldOrNone(cols, row, col) ==
    IF col # None /\ col # <<>> THEN RowGet(cols, row, col) ELSE None

\* Antibioprophylaxie(specialite=..., acte=..., ...)
MakeRecord(df, row, found, spec) ==
    [specialite |-> spec,
     acte |-> FieldOrEmpty(df.columns, row, found["acte"]),
     antibiotique |-> FieldOrEmpty(df.columns, row, found["antibiotique"]),
     posologie |-> FieldOrEmpty(df.columns, row, found["posologie"]),
     alternative_allergie |-> FieldOrNone(df.columns, row, found["alternative"]),
     reinjection |-> FieldOrNone(df.columns, row, found["reinjection"]),
     duree |-> FieldOrNone(df.columns, row, found["duree"]),
     grade |-> FieldOrNone(df.columns, row, found["grade"]),
     commentaire |-> None]

\* bool(v) for a str or None.
Truthy(v) == v # None /\ v # <<>>

\* "record.acte and record.antibiotique" raises ValueError: the truth
\* value of a Series is ambiguous.
TestRaises(record) ==
    \/ IsSeries(record.acte)
    \/ Truthy(record.acte) /\ IsSeries(record.antibiotique)

\* The filter reduced to its first operand.
KeepsRecordActeOnly(record) ==
    ~IsSeries(record.acte) /\ Truthy(record.acte)

\* if record.acte and record.antibiotique: records.append(record)
\* (a row whose test raises is skipped by the except clause)
KeepsRecord(record) ==
    /\ ~TestRaises(record)
    /\ Truthy(record.acte)
    /\ Truthy(record.antibiotique)

RECURSIVE ParseRowsReversed(_, _, _, _)
\* The row loop with records.insert(0, record) for records.append(record).
ParseRowsReversed(df, rows, found, spec) ==
    IF rows = <<>> THEN <<>>
    ELSE LET record == MakeRecord(df, Head(rows), found, spec)
         IN  ParseRowsReversed(df, Tail(rows), found, spec)
                 \o (IF KeepsRecord(record) THEN <<record>> ELSE <<>>)

RECURSIVE ParseRows(_, _, _, _)
\* for _, row in df.iterrows(): try: ... except Exception: continue
ParseRows(df, rows, found, spec) ==
    IF rows = <<>> THEN <<>>
    ELSE LET record == MakeRecord(df, Head(rows), found, spec)
         IN  (IF KeepsRecord(record) THEN <<record>> ELSE <<>>)
                 \o ParseRows(df, Tail(rows), found, spec)

parse_table_to_records(df, spec) ==
    ParseRows(df, df.rows, ResolveColumns(df.columns), spec)

\* ord(c)
CodePoint(c) == CHOOSE i \in DOMAIN CodePointOrder : CodePointOrder[i] = c

RECURSIVE StrLess(_, _)
\* a < b for two str
StrLess(a, b) ==
    IF b = <<>> THEN FALSE
    ELSE IF a = <<>> THEN TRUE
    ELSE IF Head(a) = Head(b) THEN StrLess(Tail(a), Tail(b))
    ELSE CodePoint(Head(a)) < CodePoint(Head(b))

RECURSIVE SortedDescending(_)
\* sorted(S, reverse=True)
SortedDescending(S) ==
    IF S = {} THEN <<>>
    ELSE LET least == CHOOSE x \in S : \A y \in S \ {x} : StrLess(x, y)
         IN  SortedDescending(S \ {least}) \o <<least>>

RECURSIVE Sorted(_)
\* sorted(S) for a set of str
Sorted(S) ==
    IF S = {} THEN <<>>
    ELSE LET least == CHOOSE x \in S : \A y \in S \ {x} : StrLess(x, y)
         IN  <<least>> \o Sorted(S \ {least})

\* The grades the test suite accepts, None apart.
valid_grades == {Str("GRADE 1"), Str("GRADE 2"), Str("Avis d'experts")}

S_acte_cell == Str("a b")
S_GRADE_1 == Str("GRADE 1")
S_fort == Str("fort")

\* What pdfplumber yields for a cell: None, white space, text to clean.
RawText == <<" ", "a", "U+0009", "U+000A", "b", " ">>
RawBlank == <<" ", "U+000A">>

\* Header rows: the canonical labels; aliases with no antibiotic column;
\* two columns sharing the label Acte; two columns sharing the label ATB;
\* the canonical labels with a Grade column.
CanonicalHeader == <<S_Acte, S_Antibiotique>>
GradeHeader == <<S_Acte, S_Antibiotique, S_Grade>>

HeaderRows ==
    {CanonicalHeader,
     <<Str("Intervention"), S_Dose>>,
     <<S_Acte, S_Acte>>,
     <<S_Acte, S_ATB, S_ATB>>,
     GradeHeader}

\* Data rows per table: one or two under the canonical header, one under
\* the others.
RowCounts(h) == IF h = CanonicalHeader THEN {1, 2} ELSE {1}

\* The data rows a table under header h may hold.
RawRows(h) ==
    IF h = CanonicalHeader
    THEN {<<RawText, RawText>>, <<Str("c"), RawText>>,
          <<RawBlank, RawText>>, <<RawText, None>>}
    ELSE IF h = GradeHeader
    THEN {<<RawText, RawText, g>> : g \in {S_GRADE_1, S_fort, None}}
    ELSE IF Len(h) = 3
    THEN {<<RawText, RawText, RawText>>, <<RawBlank, RawText, RawText>>}
    ELSE {<<RawText, RawText>>, <<None, RawText>>}

\* 0-based page indices: pages 46 (Ophtalmologie) and 999 (no interval).
PageIndices == {45, 998}

\* What page.extract_tables() yields: None or an empty table, a table of
\* one row, or a header row followed by data rows.
RawTables ==
    {<<>>}
        \cup {<<h>> : h \in HeaderRows}
        \cup UNION {{<<h>> \o data : data \in [1..n -> RawRows(h)]} :
                       <<h, n>> \in {hn \in HeaderRows \X {1, 2} :
                                        hn[2] \in RowCounts(hn[1])}}

MaxTables == 2

ExIdle ==
    /\ page_tables = <<>>
    /\ tables = <<>>
    /\ next_table = 0
    /\ all_records = <<>>
    /\ specialties = {}
    /\ output = None
    /\ ex_pc = "idle"

\* extract_rfe_data(pdf_path): tables = []
ExInit ==
    /\ page_tables = <<>>
    /\ tables = <<>>
    /\ next_table = 1
    /\ all_records = <<>>
    /\ specialties = {}
    /\ output = None
    /\ ex_pc = "extract_tables"

\* The page (enumerate index) of the last table read; pages come in order.
LastPageIndex ==
    IF page_tables = <<>> THEN 0 ELSE page_tables[Len(page_tables)].page_num

\* extract_tables_from_pdf with the filter "if table:", which keeps a table
\* of one row.
ExtractTableKeepingHeaderOnly ==
    /\ ex_pc = "extract_tables"
    /\ Len(page_tables) < MaxTables
    /\ \E table \in RawTables, page_index \in PageIndices :
          /\ page_index >= LastPageIndex
          /\ page_tables' = Append(page_tables, [page_num |-> page_index, table |-> table])
          /\ IF table # <<>>
             THEN tables' = Append(tables, MakeDataFrame(CleanTable(table), page_index))
             ELSE tables' = tables
    /\ UNCHANGED <<next_table, all_records, specialties, output, ex_pc>>

\* extract_tables_from_pdf, one table of one page:
\* if table and len(table) > 1: ... tables.append(df)
\* page_tables keeps what page.extract_tables() has yielded, page by page.
ExtractTable ==
    /\ ex_pc = "extract_tables"
    /\ Len(page_tables) < MaxTables
    /\ \E table \in RawTables, page_index \in PageIndices :
          /\ page_index >= LastPageIndex
          /\ page_tables' = Append(page_tables, [page_num |-> page_index, table |-> table])
          /\ IF table # <<>> /\ Len(table) > 1
             THEN tables' = Append(tables, MakeDataFrame(CleanTable(table), page_index))
             ELSE tables' = tables
    /\ UNCHANGED <<next_table, all_records, specialties, output, ex_pc>>

\* extract_tables_from_pdf: return tables
ReturnTables ==
    /\ ex_pc = "extract_tables"
    /\ ex_pc' = "parse"
    /\ UNCHANGED <<page_tables, tables, next_table, all_records, specialties, output>>

\* The turn of the loop without the try/except of the row loop: the error
\* of a row leaves parse_table_to_records and extract_rfe_data.
ParseTableUnguarded ==
    /\ ex_pc = "parse"
    /\ next_table <= Len(tables)
    /\ LET df == tables[next_table]
           spec == identify_specialty(df.page)
           found == ResolveColumns(df.columns)
       IN  IF \E i \in DOMAIN df.rows : TestRaises(MakeRecord(df, df.rows[i], found, spec))
           THEN /\ ex_pc' = "raised"
                /\ UNCHANGED <<next_table, all_records>>
                /\ specialties' = specialties \cup {spec}
           ELSE /\ specialties' = specialties \cup {spec}
                /\ all_records' = all_records \o parse_table_to_records(df, spec)
                /\ next_table' = next_table + 1
                /\ ex_pc' = ex_pc
    /\ UNCHANGED <<page_tables, tables, output>>

\* extract_rfe_data, one turn of "for df in tables"
ParseTable ==
    /\ ex_pc = "parse"
    /\ next_table <= Len(tables)
    /\ LET df == tables[next_table]
           spec == identify_specialty(df.page)
       IN  /\ specialties' = specialties \cup {spec}
           /\ all_records' = all_records \o parse_table_to_records(df, spec)
    /\ next_table' = next_table + 1
    /\ UNCHANGED <<page_tables, tables, output, ex_pc>>

\* extract_rfe_data: output = {"metadata": {...}, "data": [...]}; return
BuildOutput ==
    /\ ex_pc = "parse"
    /\ next_table > Len(tables)
    /\ output' =
          [metadata |->
              [source |-> Str("SFAR - RFE Antibioprophylaxie 2024"),
               version |-> Str("2.0"),
               date_extraction |-> Str("now"),
               total_records |-> Len(all_records),
               specialites |-> Sorted(specialties)],
           data |-> all_records]
    /\ ex_pc' = "done"
    /\ UNCHANGED <<page_tables, tables, next_table, all_records, specialties>>

(***************************************************************************)
(* mcp_server_rfe: load_rfe_data, call_tool and the four tools             *)
(***************************************************************************)
\* d.get(key, default) for a dict d
Get(d, key, default) == IF key \in DOMAIN d THEN d[key] ELSE default

\* What load_rfe_data gives when the file is missing.
EmptyDataset == [metadata |-> <<>>, data |-> <<>>]

\* load_rfe_data: the empty Dataset when the file does not exist, else
\* json.load(f), which raises JSONDecodeError on a corrupt file.
load_rfe_data(file) ==
    IF file.state = "missing"
    THEN [raised |-> None, data |-> EmptyDataset]
    ELSE IF file.state = "corrupt"
    THEN [raised |-> Str("JSONDecodeError"), data |-> None]
    ELSE [raised |-> None, data |-> file.content]

\* if specialite: if specialite.lower() not in record.get("specialite", "").lower(): continue
PassesSpecialite(record, specialite) ==
    \/ specialite = None
    \/ specialite = <<>>
    \/ Contains(Lower(specialite), Lower(Get(record, "specialite", <<>>)))

\* The act test in one direction only: the query within the record's act.
MatchesActeOneWay(record, acte) ==
    Contains(Lower(acte), Lower(Get(record, "acte", <<>>)))

\* if acte_lower in record_acte or record_acte in acte_lower
MatchesActe(record, acte) ==
    \/ Contains(Lower(acte), Lower(Get(record, "acte", <<>>)))
    \/ Contains(Lower(Get(record, "acte", <<>>)), Lower(acte))

\* for record in data.get("data", []): ... resultats.append(record)
Resultats(data, acte, specialite) ==
    SelectSeq(Get(data, "data", <<>>),
              LAMBDA r : PassesSpecialite(r, specialite) /\ MatchesActe(r, acte))

\* The keys the result template reads with r[...].
IndexedKeys == {"acte", "specialite", "antibiotique", "posologie"}

\* str(v) inside an f-string
Render(v) == IF v = None THEN Str("None") ELSE v

\* One block of the formatted answer: the interpolated fields.
FormatResult(r) ==
    [acte |-> Render(r["acte"]),
     specialite |-> Render(r["specialite"]),
     antibiotique |-> Render(r["antibiotique"]),
     posologie |-> Render(r["posologie"]),
     alternative |->
        Render(Get(r, "alternative_allergie",
                   Str("Non sp") \o <<"U+00E9">> \o Str("cifi") \o <<"U+00E9">>)),
     reinjection |-> Render(Get(r, "reinjection", Str("Non applicable"))),
     duree |-> Render(Get(r, "duree", Str("Dose unique"))),
     grade |->
        Render(Get(r, "grade", Str("Non pr") \o <<"U+00E9">> \o Str("cis") \o <<"U+00E9">>)),
     note |-> IF Truthy(Get(r, "commentaire", None)) THEN r["commentaire"] ELSE <<>>]

\* The search without its "if not resultats" answer.
rechercher_sans_garde(data, acte, specialite) ==
    LET resultats == Resultats(data, acte, specialite)
    IN  IF \E k \in DOMAIN resultats : ~(IndexedKeys \subseteq DOMAIN resultats[k])
        THEN [kind |-> "exception", raised |-> Str("KeyError")]
        ELSE [kind |-> "resultats",
              blocks |-> [k \in DOMAIN resultats |-> FormatResult(resultats[k])]]

rechercher_antibioprophylaxie(data, acte, specialite) ==
    LET resultats == Resultats(data, acte, specialite)
    IN  IF resultats = <<>>
        THEN [kind |-> "aucune_recommandation", acte |-> acte]
        ELSE IF \E k \in DOMAIN resultats : ~(IndexedKeys \subseteq DOMAIN resultats[k])
        THEN [kind |-> "exception", raised |-> Str("KeyError")]
        ELSE [kind |-> "resultats",
              blocks |-> [k \in DOMAIN resultats |-> FormatResult(resultats[k])]]

\* A list comprehension over a list of dicts: the values f gives, in order.
MapSeq(seq, f(_)) == [k \in DOMAIN seq |-> f(seq[k])]

\* The list always derived from the records.
lister_specialites_derived(data) ==
    LET records == Get(data, "data", <<>>)
        observed ==
            {Get(records[k], "specialite", <<>>) : k \in DOMAIN records} \ {<<>>, None}
    IN  [kind |-> "specialites", items |-> Sorted(observed)]

lister_specialites(data) ==
    LET listed == Get(Get(data, "metadata", <<>>), "specialites", <<>>)
        records == Get(data, "data", <<>>)
        observed ==
            {Get(records[k], "specialite", <<>>) : k \in DOMAIN records} \ {<<>>, None}
    IN  [kind |-> "specialites",
         items |-> IF listed # <<>> THEN listed ELSE Sorted(observed)]

\* The category test as an equality of the lowered names.
lister_actes_specialite_exact(data, specialite) ==
    LET actes ==
            MapSeq(SelectSeq(Get(data, "data", <<>>),
                             LAMBDA r : Lower(specialite) =
                                            Lower(Get(r, "specialite", <<>>))),
                   LAMBDA r : Get(r, "acte", <<>>))
    IN  IF actes = <<>>
        THEN [kind |-> "aucun_acte", specialite |-> specialite]
        ELSE [kind |-> "actes", specialite |-> specialite,
              items |-> Sorted(Range(actes))]

lister_actes_specialite(data, specialite) ==
    LET actes ==
            MapSeq(SelectSeq(Get(data, "data", <<>>),
                             LAMBDA r : Contains(Lower(specialite),
                                                 Lower(Get(r, "specialite", <<>>)))),
                   LAMBDA r : Get(r, "acte", <<>>))
    IN  IF actes = <<>>
        THEN [kind |-> "aucun_acte", specialite |-> specialite]
        ELSE [kind |-> "actes", specialite |-> specialite,
              items |-> Sorted(Range(actes))]

\* The default table: timing, reinjection intervals, duree.
DefaultReco ==
    [timing |-> [description |-> Str("60 min avant"), grade |-> Str("GRADE 1")],
     reinjection |-> [intervalles |-> Str("2h 4h 8h"), grade |-> Str("GRADE 2")],
     duree |-> [description |-> Str("fin de chirurgie"), grade |-> Str("GRADE 1")]]

\* reco = data.get("recommandations_generales", {}); if not reco: reco = {...}
RecoOf(data) ==
    IF Get(data, "recommandations_generales", <<>>) # <<>>
    THEN data["recommandations_generales"]
    ELSE DefaultReco

\* output is a literal text that restates the default table; reco is
\* computed and not read again.
get_recommandations_generales(data) ==
    LET reco == RecoOf(data)
    IN  [kind |-> "recommandations_generales", advisory |-> DefaultReco]

ToolNames ==
    {"rechercher_antibioprophylaxie", "lister_specialites",
     "lister_actes_specialite", "recommandations_generales", "autre"}

\* call_tool(name, arguments) with load_rfe_data's outcome given.
Dispatch(loaded, name, arguments) ==
    IF loaded.raised # None
    THEN [kind |-> "exception", raised |-> loaded.raised]
    ELSE IF name = "rechercher_antibioprophylaxie"
    THEN rechercher_antibioprophylaxie(loaded.data, Get(arguments, "acte", <<>>),
                                       Get(arguments, "specialite", None))
    ELSE IF name = "lister_specialites"
    THEN lister_specialites(loaded.data)
    ELSE IF name = "lister_actes_specialite"
    THEN lister_actes_specialite(loaded.data, Get(arguments, "specialite", <<>>))
    ELSE IF name = "recommandations_generales"
    THEN get_recommandations_generales(loaded.data)
    ELSE [kind |-> "outil_inconnu", name |-> name]

\* data = load_rfe_data(); dispatch on name
call_tool(file, name, arguments) == Dispatch(load_rfe_data(file), name, arguments)

S_prothese_de_hanche == Str("proth") \o <<"U+00E8">> \o Str("se de hanche")
S_hanche == Str("hanche")
S_prothese_hanche_totale == Str("prothese-de-hanche-totale")
S_Orthopedie == Str("Orthop") \o <<"U+00E9">> \o Str("die")
S_ORL == Str("ORL")
S_cefazoline == Str("c") \o <<"U+00E9">> \o Str("fazoline")

StoredRecord(spec, acte) ==
    [specialite |-> spec, acte |-> acte, antibiotique |-> S_cefazoline,
     posologie |-> Str("2g"), alternative_allergie |-> None,
     reinjection |-> None, duree |-> None, grade |-> Str("GRADE 1"),
     commentaire |-> None]

\* Records a persisted Dataset may hold.
StoredRecords ==
    {StoredRecord(S_Orthopedie, S_prothese_de_hanche),
     StoredRecord(S_Orthopedie, Str("Hanche")),
     StoredRecord(S_ORL, Str("Amygdalectomie")),
     StoredRecord(S_ORL, S_prothese_de_hanche)}

\* Records of a Dataset whose metadata is stale or partial: two categories,
\* and a record with an empty category.
PartialRecords ==
    {StoredRecord(S_Orthopedie, Str("Hanche")),
     StoredRecord(S_ORL, Str("Amygdalectomie")),
     StoredRecord(<<>>, Str("Hanche"))}

MaxRecords == 2

\* The metadata extract_rfe_data derives from the records.
DerivedMetadata(recs) ==
    [total_records |-> Len(recs),
     specialites |-> Sorted({recs[k].specialite : k \in DOMAIN recs})]

\* Metadata that no longer follows the records: none, an empty category
\* list, a list written by hand.
StaleMetadata ==
    {<<>>,
     [total_records |-> 0, specialites |-> <<>>],
     [total_records |-> 2, specialites |-> <<Str("Urologie"), S_ORL, S_ORL>>]}

\* Advisory payloads embedded in a Dataset.
EmbeddedRecos ==
    {[timing |-> [description |-> Str("30 min avant"), grade |-> Str("GRADE 2")]],
     [duree |-> [description |-> Str("24h"), grade |-> Str("Avis d'experts")]]}

\* The Datasets of at most MaxRecords records: with the metadata derived
\* from the records; with stale metadata; with an embedded advisory payload.
StoredDatasets ==
    {[metadata |-> DerivedMetadata(recs), data |-> recs] :
        recs \in StringsUpTo(StoredRecords, MaxRecords)}
    \cup {[metadata |-> m, data |-> recs] :
            m \in StaleMetadata, recs \in StringsUpTo(PartialRecords, MaxRecords)}
    \cup {[metadata |-> DerivedMetadata(recs), data |-> recs,
           recommandations_generales |-> reco] :
            reco \in EmbeddedRecos \cup {<<>>},
            recs \in StringsUpTo(StoredRecords, 1)}

FileStates ==
    {[state |-> "missing", content |-> <<>>], [state |-> "corrupt", content |-> <<>>]}
        \cup {[state |-> "ok", content |-> d] : d \in StoredDatasets}

\* The acts asked for.
QueryActes ==
    {S_hanche, Str("HANCHE"), S_prothese_de_hanche \o Str(" totale"),
     S_prothese_hanche_totale, Str("amygdalectomie")}

\* The arguments of a call: acte and specialite, each present or not.
ArgumentChoices ==
    {<<>>, [acte |-> <<>>]}
        \cup {[acte |-> a] : a \in QueryActes}
        \cup {[acte |-> a, specialite |-> sp] :
                  a \in QueryActes, sp \in {<<>>, Str("ortho"), Str("orl")}}
        \cup {[specialite |-> sp] : sp \in {Str("ortho"), Str("Cardio")}}

\* A record without the key k.
Without(record, k) == [f \in DOMAIN record \ {k} |-> record[f]]

\* Records of a file written by hand: an empty act, no act at all, and a
\* complete record.
IncompleteRecords ==
    {StoredRecord(S_ORL, <<>>),
     Without(StoredRecord(S_ORL, <<>>), "acte"),
     StoredRecord(S_Orthopedie, Str("Hanche"))}

\* The Datasets of at most MaxRecords such records.
IncompleteDatasets ==
    {[metadata |-> DerivedMetadata(recs), data |-> recs] :
        recs \in StringsUpTo(IncompleteRecords, MaxRecords)}

\* The server is started on a file that holds one of them.
SearchInit ==
    /\ rfe_file \in {[state |-> "ok", content |-> dataset] :
                        dataset \in IncompleteDatasets}
    /\ call = [name |-> "", arguments |-> <<>>]
    /\ response = [kind |-> "none"]
    /\ q_pc = "ready"

QueryIdle ==
    /\ rfe_file = [state |-> "missing", content |-> <<>>]
    /\ call = [name |-> "", arguments |-> <<>>]
    /\ response = [kind |-> "none"]
    /\ q_pc = "idle"

QueryInit ==
    /\ rfe_file \in FileStates
    /\ call = [name |-> "", arguments |-> <<>>]
    /\ response = [kind |-> "none"]
    /\ q_pc = "ready"

\* One invocation of call_tool, from load_rfe_data to the answer.
CallTool ==
    /\ q_pc \in {"ready", "answered"}
    /\ \E name \in ToolNames, arguments \in ArgumentChoices :
          /\ call' = [name |-> name, arguments |-> arguments]
          /\ response' = call_tool(rfe_file, name, arguments)
    /\ q_pc' = "answered"
    /\ UNCHANGED rfe_file

(***************************************************************************)
(* mcp_server_rfe: the server process, its invocations of call_tool in     *)
(* flight and the persisted file they read                                 *)
(***************************************************************************)
\* The invocations of call_tool the transport runs at the same time.
MaxInFlight == 2

Slots == 1..MaxInFlight

\* What rfe_antibioprophylaxie.json may be while the server runs: missing,
\* corrupt, or one of two Datasets.
ServerDatasets ==
    {[metadata |-> DerivedMetadata(recs), data |-> recs] :
        recs \in {<<StoredRecord(S_Orthopedie, Str("Hanche"))>>,
                  <<StoredRecord(S_ORL, S_prothese_de_hanche),
                    StoredRecord(S_ORL, Str("Amygdalectomie"))>>}}

ServerFiles ==
    {[state |-> "missing", content |-> <<>>], [state |-> "corrupt", content |-> <<>>]}
        \cup {[state |-> "ok", content |-> dataset] : dataset \in ServerDatasets}

\* The requests of the clients: name and arguments.
ServerCalls ==
    {[name |-> "rechercher_antibioprophylaxie", arguments |-> [acte |-> S_hanche]],
     [name |-> "lister_specialites", arguments |-> <<>>],
     [name |-> "lister_actes_specialite", arguments |-> [specialite |-> Str("orl")]],
     [name |-> "recommandations_generales", arguments |-> <<>>]}

NoCall == [name |-> "", arguments |-> <<>>]

\* An invocation: where it stands in call_tool, its request, the outcome of
\* its load_rfe_data() (its local data) and its answer.
IdleInvocation ==
    [pc |-> "idle", call |-> NoCall, loaded |-> None, response |-> [kind |-> "none"]]

ServerIdle ==
    /\ server_file = [state |-> "missing", content |-> <<>>]
    /\ invocations = [i \in Slots |-> IdleInvocation]

\* The server process is started; no request has come.
ServerInit ==
    /\ server_file \in ServerFiles
    /\ invocations = [i \in Slots |-> IdleInvocation]

\* The transport starts call_tool(name, arguments) for a request.
Invoke(i) ==
    /\ invocations[i].pc = "idle"
    /\ \E request \in ServerCalls :
          invocations' =
              [invocations EXCEPT ![i] = [IdleInvocation EXCEPT !.pc = "called",
                                                                !.call = request]]
    /\ UNCHANGED server_file

\* data = load_rfe_data()
Load(i) ==
    /\ invocations[i].pc = "called"
    /\ invocations' =
          [invocations EXCEPT ![i].pc = "loaded",
                              ![i].loaded = load_rfe_data(server_file)]
    /\ UNCHANGED server_file

\* The dispatch with the data of whichever invocation has loaded: one
\* handle shared by the invocations in flight.
AnswerFromSharedHandle(i) ==
    /\ invocations[i].pc = "loaded"
    /\ \E j \in Slots :
          /\ invocations[j].pc \in {"loaded", "answered"}
          /\ invocations' =
                [invocations EXCEPT
                    ![i].pc = "answered",
                    ![i].response = Dispatch(invocations[j].loaded,
                                             invocations[i].call.name,
                                             invocations[i].call.arguments)]
    /\ UNCHANGED server_file

\* The dispatch on name and the tool's answer, from the invocation's own
\* data; the tools build new lists and leave data as it is.
Answer(i) ==
    /\ invocations[i].pc = "loaded"
    /\ invocations' =
          [invocations EXCEPT
              ![i].pc = "answered",
              ![i].response = Dispatch(invocations[i].loaded,
                                       invocations[i].call.name,
                                       invocations[i].call.arguments)]
    /\ UNCHANGED server_file

\* The answer has been sent (or the error reported); the invocation ends.
Return(i) ==
    /\ invocations[i].pc = "answered"
    /\ invocations' = [invocations EXCEPT ![i] = IdleInvocation]
    /\ UNCHANGED server_file

\* Outside the server, the persisted file is written anew or removed.
ReplaceFile ==
    /\ \E file \in ServerFiles \ {server_file} : server_file' = file
    /\ UNCHANGED invocations

(***************************************************************************)
(* generate_api: generate_specialites_endpoint,                            *)
(* generate_specialite_endpoints                                           *)
(***************************************************************************)
\* [rec for rec in data["data"] if rec["specialite"] == specialite_name]
RecordsOf(data, specialite_name) ==
    SelectSeq(data.data, LAMBDA rec : rec.specialite = specialite_name)

\* One entry of specialites.json.
SpecialiteEntry(data, specialite_name) ==
    [nom |-> specialite_name,
     slug |-> slugify(specialite_name),
     count |-> Len(RecordsOf(data, specialite_name))]

\* The content of specialites.json.
SpecialitesEndpoint(data) ==
    LET specialites_list ==
            [k \in DOMAIN data.metadata.specialites |->
                SpecialiteEntry(data, data.metadata.specialites[k])]
    IN  [specialites |-> specialites_list, total |-> Len(specialites_list)]

\* The content of specialite/{slug}.json.
SpecialiteEndpoint(data, specialite_name) ==
    [specialite |-> [nom |-> specialite_name, slug |-> slugify(specialite_name)],
     recommandations |-> RecordsOf(data, specialite_name),
     total |-> Len(RecordsOf(data, specialite_name))]

\* output_file = specialite_dir / f"{slug}.json"
OutputName(specialite_name) == slugify(specialite_name)

\* open(output_file, 'w'); json.dump(...): the file is created or replaced.
WriteFile(files, name, content) ==
    [n \in DOMAIN files \cup {name} |-> IF n = name THEN content ELSE files[n]]

RECURSIVE WriteSpecialiteFiles(_, _, _)
\* for specialite_name in data["metadata"]["specialites"]: ... json.dump
WriteSpecialiteFiles(data, names, files) ==
    IF names = <<>> THEN files
    ELSE WriteSpecialiteFiles(
             data, Tail(names),
             WriteFile(files, OutputName(Head(names)),
                       SpecialiteEndpoint(data, Head(names))))

S_Orl == Str("Orl")

\* Category names of a Dataset; two of them differ by case only.
CategoryNames == {S_ORL, S_Orl, S_Orthopedie}

ApiRecords ==
    {StoredRecord(S_ORL, Str("Amygdalectomie")),
     StoredRecord(S_Orl, Str("Amygdalectomie")),
     StoredRecord(S_Orthopedie, S_prothese_de_hanche),
     StoredRecord(S_Orthopedie, Str("Hanche"))}

MaxApiRecords == 2

\* Datasets: at most MaxApiRecords records, and a metadata list that is
\* sorted, free of duplicates and holds the category of every record
\* (and, possibly, categories without records).
ApiDatasets ==
    {[metadata |-> [total_records |-> Len(recs), specialites |-> Sorted(names)],
      data |-> recs] :
        <<recs, names>> \in
            {rn \in StringsUpTo(ApiRecords, MaxApiRecords) \X SUBSET CategoryNames :
                {rn[1][k].specialite : k \in DOMAIN rn[1]} \subseteq rn[2]}}

ApiIdle ==
    /\ api_data = EmptyDataset
    /\ specialites_json = None
    /\ specialite_files = <<>>
    /\ api_pc = "idle"

\* main: data = json.load(f)
ApiInit ==
    /\ api_data \in ApiDatasets
    /\ specialites_json = None
    /\ specialite_files = <<>>
    /\ api_pc = "loaded"

\* generate_specialites_endpoint(data, output_dir)
GenerateSpecialitesEndpoint ==
    /\ api_pc = "loaded"
    /\ specialites_json' = SpecialitesEndpoint(api_data)
    /\ api_pc' = "specialites"
    /\ UNCHANGED <<api_data, specialite_files>>

\* generate_specialite_endpoints(data, output_dir)
GenerateSpecialiteEndpoints ==
    /\ api_pc = "specialites"
    /\ specialite_files' =
          WriteSpecialiteFiles(api_data, api_data.metadata.specialites,
                               specialite_files)
    /\ api_pc' = "generated"
    /\ UNCHANGED <<api_data, specialites_json>>

vars == <<slugVars, classVars, colVars, exVars, queryVars, apiVars, serverVars>>

otherVars == <<slugVars, classVars, colVars, exVars, queryVars, apiVars>>

SlugNext ==
    \/ Slugify /\ UNCHANGED <<classVars, colVars, exVars, queryVars, apiVars, serverVars>>
    \/ SlugifyAgain /\ UNCHANGED <<classVars, colVars, exVars, queryVars, apiVars, serverVars>>

InitSlug == SlugInit /\ ClassIdle /\ ColIdle /\ ExIdle /\ QueryIdle /\ ApiIdle /\ ServerIdle

SpecSlug == InitSlug /\ [][SlugNext]_vars

ClassNext == IdentifySpecialty /\ UNCHANGED <<slugVars, colVars, exVars, queryVars, apiVars, serverVars>>

InitClassify == ClassInit /\ SlugIdle /\ ColIdle /\ ExIdle /\ QueryIdle /\ ApiIdle /\ ServerIdle

SpecClassify == InitClassify /\ [][ClassNext]_vars

ColNext == IdentifyColumns /\ UNCHANGED <<slugVars, classVars, exVars, queryVars, apiVars, serverVars>>

InitColumns == ColInit /\ SlugIdle /\ ClassIdle /\ ExIdle /\ QueryIdle /\ ApiIdle /\ ServerIdle

SpecColumns == InitColumns /\ [][ColNext]_vars

ExNext ==
    \/ ExtractTable /\ UNCHANGED <<slugVars, classVars, colVars, queryVars, apiVars, serverVars>>
    \/ ReturnTables /\ UNCHANGED <<slugVars, classVars, colVars, queryVars, apiVars, serverVars>>
    \/ ParseTable /\ UNCHANGED <<slugVars, classVars, colVars, queryVars, apiVars, serverVars>>
    \/ BuildOutput /\ UNCHANGED <<slugVars, classVars, colVars, queryVars, apiVars, serverVars>>

InitExtract == ExInit /\ SlugIdle /\ ClassIdle /\ ColIdle /\ QueryIdle /\ ApiIdle /\ ServerIdle

SpecExtract == InitExtract /\ [][ExNext]_vars

QueryNext == CallTool /\ UNCHANGED <<slugVars, classVars, colVars, exVars, apiVars, serverVars>>

InitQuery == QueryInit /\ SlugIdle /\ ClassIdle /\ ColIdle /\ ExIdle /\ ApiIdle /\ ServerIdle

SpecQuery == InitQuery /\ [][QueryNext]_vars

InitSearch ==
    SearchInit /\ SlugIdle /\ ClassIdle /\ ColIdle /\ ExIdle /\ ApiIdle /\ ServerIdle

SpecSearch == InitSearch /\ [][QueryNext]_vars

ApiNext ==
    \/ GenerateSpecialitesEndpoint
          /\ UNCHANGED <<slugVars, classVars, colVars, exVars, queryVars, serverVars>>
    \/ GenerateSpecialiteEndpoints
          /\ UNCHANGED <<slugVars, classVars, colVars, exVars, queryVars, serverVars>>

InitApi == ApiInit /\ SlugIdle /\ ClassIdle /\ ColIdle /\ ExIdle /\ QueryIdle /\ ServerIdle

SpecApi == InitApi /\ [][ApiNext]_vars

ServerNext ==
    \/ \E i \in Slots : Invoke(i) /\ UNCHANGED otherVars
    \/ \E i \in Slots : Load(i) /\ UNCHANGED otherVars
    \/ \E i \in Slots : Answer(i) /\ UNCHANGED otherVars
    \/ \E i \in Slots : Return(i) /\ UNCHANGED otherVars
    \/ ReplaceFile /\ UNCHANGED otherVars

InitServer ==
    ServerInit /\ SlugIdle /\ ClassIdle /\ ColIdle /\ ExIdle /\ QueryIdle /\ ApiIdle

SpecServer == InitServer /\ [][ServerNext]_vars

(***************************************************************************)
(* Claims on slugify                                                       *)
(***************************************************************************)
IsLowerAlnum(c) == IsAlnum(c) /\ LowerChar(c) = c

\* Lower-case alphanumerics separated by single hyphens, no hyphen first or
\* last.
WellFormedSlug(s) ==
    /\ \A i \in DOMAIN s : s[i] = "-" \/ IsLowerAlnum(s[i])
    /\ \A i \in DOMAIN s : s[i] = "-" => i # 1 /\ i # Len(s) /\ s[i + 1] # "-"

\* C8: slugify is total and idempotent: every input yields a string,
\* slugify(slugify(x)) = slugify(x), the slug holds only lower-case
\* alphanumerics separated by single hyphens with no leading or trailing
\* hyphen, and slugify("Chirurgie orthopedique" with e-acute) is
\* "chirurgie-orthopedique".
C8_SlugifyIdempotent ==
    /\ slug_pc \in {"once", "twice"} =>
          /\ slug_result \in Seq(AsciiLetters \cup AsciiDigits \cup OtherLetters \cup {"-"})
          /\ WellFormedSlug(slug_result)
    /\ slug_pc = "twice" => slug_twice = slug_result
    /\ slug_pc \in {"once", "twice"} /\ slug_text = S_ChirurgieOrthopedique =>
          slug_result = S_chirurgie_orthopedique

C8_Witness ==
    /\ slug_pc = "twice"
    /\ slug_text = <<"U+00C9", " ", "-">>
    /\ slug_result = <<"e">>
    /\ slug_twice = <<"e">>

IsAsciiSlugChar(c) == c \in Range(AsciiLower) \cup AsciiDigits \cup {"-"}

\* C9: slugify maps a ligature that NFD does not split to its two ASCII
\* letters: slugify("OEsophage et estomac", OE being the ligature) is
\* "oesophage-et-estomac", and every slug holds only ASCII letters, digits
\* and hyphens.
C9_LigatureToAscii ==
    slug_pc \in {"once", "twice"} =>
        /\ \A i \in DOMAIN slug_result : IsAsciiSlugChar(slug_result[i])
        /\ slug_text = S_OEsophageEtEstomac => slug_result = S_oesophage_et_estomac

(***************************************************************************)
(* Claims on identify_specialty                                            *)
(***************************************************************************)
\* The intervals of the table that hold the page, bounds included.
Holding(page) ==
    {i \in DOMAIN specialty_pages :
        specialty_pages[i].start <= page /\ page <= specialty_pages[i].end}

\* C4: for every integer page (negative, zero, beyond every range),
\* identify_specialty returns the specialty of the first interval in
\* declaration order whose inclusive bounds hold the page, and the sentinel
\* "Non classe" when none does; the result is never empty; page 46 gives
\* "Ophtalmologie" and page 999 the sentinel.
C4_FirstIntervalOrSentinel ==
    class_pc = "done" =>
        /\ IF Holding(page_num) = {}
           THEN specialty = S_NonClasse
           ELSE \E i \in Holding(page_num) :
                   /\ \A j \in Holding(page_num) : i <= j
                   /\ specialty = specialty_pages[i].specialty
        /\ specialty # <<>>
        /\ page_num = 46 => specialty = S_Ophtalmologie
        /\ page_num = 999 => specialty = S_NonClasse

C4_Witness ==
    /\ class_pc = "done"
    /\ page_num = 46
    /\ specialty = S_Ophtalmologie

(***************************************************************************)
(* Claims on find_column                                                   *)
(***************************************************************************)
\* The header cells that contain, case-insensitively, some alias of role r.
CellsWithAnyAlias(r) ==
    {i \in DOMAIN columns :
        \E k \in DOMAIN column_mapping[r] :
            AliasMatches(column_mapping[r][k], columns[i])}

\* The header cells that contain alias k of role r.
CellsWithAlias(r, k) ==
    {i \in DOMAIN columns : AliasMatches(column_mapping[r][k], columns[i])}

\* The aliases of role r that some header cell contains.
AliasesPresent(r) ==
    {k \in DOMAIN column_mapping[r] : CellsWithAlias(r, k) # {}}

SetMin(S) == CHOOSE m \in S : \A n \in S : m <= n

\* C10 as stated: each role resolves to the first header cell in table
\* order that contains any alias of the role, and to None when no header
\* cell contains one.
C10_FirstCellWithAnyAlias ==
    col_pc = "done" =>
        \A r \in Range(Roles) :
            IF CellsWithAnyAlias(r) = {}
            THEN col_found[r] = None
            ELSE col_found[r] = columns[SetMin(CellsWithAnyAlias(r))]

\* C10 amended: each role resolves to the text of the first header cell, in
\* table order, that contains the earliest alias (in declaration order)
\* found in any header cell; to None when no header cell contains any
\* alias; and to one header text at most.
C10_FirstCellOfFirstAlias ==
    col_pc = "done" =>
        \A r \in Range(Roles) :
            IF AliasesPresent(r) = {}
            THEN col_found[r] = None /\ CellsWithAnyAlias(r) = {}
            ELSE /\ col_found[r] =
                      columns[SetMin(CellsWithAlias(r, SetMin(AliasesPresent(r))))]
                 /\ col_found[r] \in Range(columns)

\* The header holds "Dose" before "POSOLOGIE": the role posologie goes to
\* the second cell, which holds its first alias.
C10_Witness ==
    /\ col_pc = "done"
    /\ columns = <<S_Dose, Str("POSOLOGIE"), S_page>>
    /\ col_found["posologie"] = Str("POSOLOGIE")
    /\ col_found["acte"] = None

\* C21: the resolved column map is injective on the resolved roles: no
\* header cell is given to two field roles.
C21_ColumnMapInjective ==
    col_pc = "done" =>
        \A r1, r2 \in Range(Roles) :
            r1 # r2 /\ col_found[r1] # None => col_found[r1] # col_found[r2]

(***************************************************************************)
(* Claims on the extraction                                                *)
(***************************************************************************)
IsStr(v) == v # None /\ ~IsSeries(v)

RequiredFields == {"specialite", "acte", "antibiotique", "posologie"}

\* The cell of a data row under the column resolved for a role; the empty
\* string when the role has no column.
CellOf(df, row, role) ==
    FieldOrEmpty(df.columns, row, ResolveColumns(df.columns)[role])

\* The data rows, over all tables, that hold a non-empty act and a
\* non-empty antibiotic.
CompleteRows ==
    {<<t, i>> \in UNION {{t} \X DOMAIN tables[t].rows : t \in DOMAIN tables} :
        /\ IsStr(CellOf(tables[t], tables[t].rows[i], "acte"))
        /\ CellOf(tables[t], tables[t].rows[i], "acte") # <<>>
        /\ IsStr(CellOf(tables[t], tables[t].rows[i], "antibiotique"))
        /\ CellOf(tables[t], tables[t].rows[i], "antibiotique") # <<>>}

\* C1: every record of the Dataset returned by extract_rfe_data has a
\* non-empty acte and a non-empty antibiotique and carries the fields
\* specialite, acte, antibiotique and posologie; a row whose acte or
\* antibiotique is empty after normalization gives no record.
C1_RecordsComplete ==
    ex_pc = "done" =>
        /\ \A k \in DOMAIN output.data :
              /\ RequiredFields \subseteq DOMAIN output.data[k]
              /\ IsStr(output.data[k].acte) /\ output.data[k].acte # <<>>
              /\ IsStr(output.data[k].antibiotique)
              /\ output.data[k].antibiotique # <<>>
              /\ output.data[k].acte = normalize_text(output.data[k].acte)
              /\ output.data[k].antibiotique =
                    normalize_text(output.data[k].antibiotique)
        /\ Len(output.data) <= Cardinality(CompleteRows)

\* Two tables were read; the second has a row with a white-space act,
\* dropped, and a complete row, kept.
C1_Witness ==
    /\ ex_pc = "done"
    /\ Len(tables) = 2
    /\ tables[2].rows = << <<<<>>, S_acte_cell>>, <<S_acte_cell, S_acte_cell>> >>
    /\ tables[2].columns = <<S_Acte, S_Antibiotique, S_page>>
    /\ Len(output.data) = 1
    /\ output.data[1].acte = S_acte_cell

\* The tables page.extract_tables() yielded that hold a header row and at
\* least one data row, in the order they were met.
KeptPageTables ==
    SelectSeq(page_tables, LAMBDA e : e.table # <<>> /\ Len(e.table) > 1)

\* The category of the page a table was met on (pages are numbered from 1).
CategoryOf(e) == identify_specialty(e.page_num + 1)

\* tables holds one frame per kept table, in discovery order.
TablesInDiscoveryOrder ==
    /\ Len(tables) = Len(KeptPageTables)
    /\ \A t \in DOMAIN tables :
          /\ tables[t].rows = Tail(CleanTable(KeptPageTables[t].table))
          /\ tables[t].page = KeptPageTables[t].page_num + 1

\* <<t, i>> comes before <<u, j>>: an earlier table, or the same table and
\* an earlier row.
RowBefore(a, b) == a[1] < b[1] \/ (a[1] = b[1] /\ a[2] < b[2])

\* The k-th retained row in table order, then row order.
RetainedRow(k) ==
    CHOOSE a \in CompleteRows :
        Cardinality({b \in CompleteRows : RowBefore(b, a)}) = k - 1

\* Record r was built from row i of table t.
RecordOfRow(r, t, i) ==
    /\ r.specialite = identify_specialty(tables[t].page)
    /\ r.acte = CellOf(tables[t], tables[t].rows[i], "acte")
    /\ r.antibiotique = CellOf(tables[t], tables[t].rows[i], "antibiotique")

\* C11: the records of the Dataset returned by extract_rfe_data are in table
\* discovery order and, within a table, in row order: the k-th record is
\* the record of the k-th retained row.
C11_RecordsInDiscoveryOrder ==
    /\ TablesInDiscoveryOrder
    /\ ex_pc = "done" =>
          /\ Len(output.data) = Cardinality(CompleteRows)
          /\ \A k \in DOMAIN output.data :
                RecordOfRow(output.data[k], RetainedRow(k)[1], RetainedRow(k)[2])

\* A table of page 46 gave two records, "c" before "a b", and a table of
\* page 999 gave the third.
C11_Witness ==
    /\ ex_pc = "done"
    /\ Len(output.data) = 3
    /\ output.data[1].acte = Str("c")
    /\ output.data[2].acte = S_acte_cell
    /\ output.data[2].specialite = S_Ophtalmologie
    /\ output.data[3].specialite = S_NonClasse

\* C12: in every Dataset returned by extract_rfe_data, total_records is the
\* number of records in data, and specialites is sorted, has no duplicate
\* and holds the category of every record.
C12_MetadataDerived ==
    ex_pc = "done" =>
        /\ output.metadata.total_records = Len(output.data)
        /\ \A k \in 1..(Len(output.metadata.specialites) - 1) :
              StrLess(output.metadata.specialites[k],
                      output.metadata.specialites[k + 1])
        /\ \A k \in DOMAIN output.data :
              output.data[k].specialite \in Range(output.metadata.specialites)

\* Two tables of two pages gave records of two categories.
C12_Witness ==
    /\ ex_pc = "done"
    /\ Len(output.data) = 2
    /\ output.metadata.total_records = 2
    /\ output.metadata.specialites = <<S_NonClasse, S_Ophtalmologie>>
    /\ output.data[1].specialite = S_Ophtalmologie
    /\ output.data[2].specialite = S_NonClasse

\* C13: the grade of every record of an extracted Dataset is absent or a
\* member of the grade enumeration.
C13_GradeInEnumeration ==
    ex_pc = "done" =>
        \A k \in DOMAIN output.data :
            \/ output.data[k].grade = None
            \/ output.data[k].grade \in valid_grades

\* Row i of table t raises when its record is tested.
RowRaises(t, i) ==
    \/ IsSeries(CellOf(tables[t], tables[t].rows[i], "acte"))
    \/ /\ CellOf(tables[t], tables[t].rows[i], "acte") # <<>>
       /\ IsSeries(CellOf(tables[t], tables[t].rows[i], "antibiotique"))

C20_ShortTableSkipped ==
    /\ TablesInDiscoveryOrder
    /\ ex_pc = "done" =>
          /\ Range(output.metadata.specialites) =
                {CategoryOf(KeptPageTables[t]) : t \in DOMAIN KeptPageTables}
          /\ \A k \in DOMAIN output.data :
                \E t \in DOMAIN KeptPageTables :
                    output.data[k].specialite = CategoryOf(KeptPageTables[t])

\* A header-only table of page 46 was skipped; the table of page 999 met
\* after it gave the only record and the only category.
C20_Witness ==
    /\ ex_pc = "done"
    /\ Len(page_tables) = 2
    /\ Len(page_tables[1].table) = 1
    /\ page_tables[1].page_num = 45
    /\ page_tables[2].page_num = 998
    /\ Len(output.data) = 1
    /\ output.metadata.specialites = <<S_NonClasse>>

(***************************************************************************)
(* Claims on the query tools                                               *)
(***************************************************************************)
Answered(name) == q_pc = "answered" /\ call.name = name

Searched == Answered("rechercher_antibioprophylaxie") /\ rfe_file.state = "ok"

AskedActe == Get(call.arguments, "acte", <<>>)

AskedSpecialite == Get(call.arguments, "specialite", None)

\* The records of the persisted Dataset, in Dataset order.
StoredData == rfe_file.content.data

\* The places, in the Dataset, of the records the claim selects: the
\* category is absent or its lower case lies within the record's, and the
\* lowered acts lie one within the other.
Selected ==
    {i \in DOMAIN StoredData :
        /\ \/ AskedSpecialite = None
           \/ Contains(Lower(AskedSpecialite), Lower(StoredData[i].specialite))
        /\ \/ Contains(Lower(AskedActe), Lower(StoredData[i].acte))
           \/ Contains(Lower(StoredData[i].acte), Lower(AskedActe))}

\* The k-th smallest member of a set of numbers.
Nth(S, k) == CHOOSE i \in S : Cardinality({j \in S : j <= i}) = k

\* C2: rechercher_antibioprophylaxie returns exactly the records whose
\* category contains the asked category (when one is asked) and whose act
\* contains the asked act or lies within it, case-insensitively, each once
\* and in Dataset order; "hanche" finds a record "prothese de hanche".
C2_SearchReturnsMatches ==
    Searched /\ Selected # {} =>
        /\ response.kind = "resultats"
        /\ Len(response.blocks) = Cardinality(Selected)
        /\ \A k \in DOMAIN response.blocks :
              response.blocks[k] = FormatResult(StoredData[Nth(Selected, k)])
        /\ AskedActe = S_hanche
              /\ AskedSpecialite = None
              /\ (\E i \in DOMAIN StoredData : StoredData[i].acte = S_prothese_de_hanche)
              => \E k \in DOMAIN response.blocks :
                    response.blocks[k].acte = S_prothese_de_hanche

\* "prothese de hanche totale" asked in ORL over two ORL records: only the
\* second, whose act lies within the asked act, is returned.
C2_Witness ==
    /\ Searched
    /\ AskedActe = S_prothese_de_hanche \o Str(" totale")
    /\ AskedSpecialite = Str("orl")
    /\ Len(StoredData) = 2
    /\ StoredData[1].acte = Str("Amygdalectomie")
    /\ StoredData[2].specialite = S_ORL
    /\ response.kind = "resultats"
    /\ Len(response.blocks) = 1
    /\ response.blocks[1].acte = S_prothese_de_hanche

\* C3: the no-result answer, with its guidance text, is returned exactly
\* when no record matches; no error is raised; "prothese-de-hanche-totale"
\* against "prothese de hanche" (with e-grave) is such a miss.
C3_NoResultIffNoMatch ==
    Searched =>
        /\ response.kind \in {"aucune_recommandation", "resultats"}
        /\ response.kind = "aucune_recommandation" <=> Selected = {}
        /\ response.kind = "aucune_recommandation" => response.acte = AskedActe
        /\ AskedActe = S_prothese_hanche_totale
              /\ (\A i \in DOMAIN StoredData : StoredData[i].acte = S_prothese_de_hanche)
              => response.kind = "aucune_recommandation"

C3_Witness ==
    /\ Searched
    /\ AskedActe = S_prothese_hanche_totale
    /\ AskedSpecialite = None
    /\ Len(StoredData) = 1
    /\ StoredData[1].acte = S_prothese_de_hanche
    /\ response.kind = "aucune_recommandation"

\* C5: when the persisted Dataset cannot be loaded, the file missing or
\* its content corrupt, every call is answered from the empty Dataset: no
\* error reaches the transport, a search or an act listing gives its
\* no-result answer, the list of categories is empty.
C5_LoadFailureGivesEmptyDataset ==
    q_pc = "answered" /\ rfe_file.state \in {"missing", "corrupt"} =>
        /\ response.kind # "exception"
        /\ response = Dispatch([raised |-> None, data |-> EmptyDataset],
                               call.name, call.arguments)
        /\ call.name = "rechercher_antibioprophylaxie" =>
              response.kind = "aucune_recommandation"
        /\ call.name = "lister_actes_specialite" => response.kind = "aucun_acte"
        /\ call.name = "lister_specialites" => response.items = <<>>

\* The Dataset a call works on when load_rfe_data does not raise.
LoadedData ==
    IF rfe_file.state = "missing" THEN EmptyDataset ELSE rfe_file.content

Loaded == rfe_file.state \in {"missing", "ok"}

\* A list of str in strictly increasing order: sorted, no duplicate.
StrictlySorted(items) ==
    \A k \in 1..(Len(items) - 1) : StrLess(items[k], items[k + 1])

\* The category list of the metadata, empty when the metadata has none.
ListedInMetadata ==
    IF "specialites" \in DOMAIN LoadedData.metadata
    THEN LoadedData.metadata.specialites
    ELSE <<>>

\* C14: lister_specialites returns the category list of the metadata
\* unchanged when it is present and non-empty, and otherwise the sorted,
\* duplicate-free list of the non-empty categories of the records.
C14_ListedOrDerivedCategories ==
    Answered("lister_specialites") /\ Loaded =>
        /\ response.kind = "specialites"
        /\ ListedInMetadata # <<>> => response.items = ListedInMetadata
        /\ ListedInMetadata = <<>> =>
              /\ StrictlySorted(response.items)
              /\ Range(response.items) =
                    {LoadedData.data[i].specialite : i \in DOMAIN LoadedData.data}
                        \ {<<>>}

\* The metadata has no category list; the records of Orthopedie, of ORL
\* give the list ORL, Orthopedie.
C14_Witness ==
    /\ Answered("lister_specialites")
    /\ rfe_file.state = "ok"
    /\ rfe_file.content.metadata = <<>>
    /\ Len(StoredData) = 2
    /\ StoredData[1].specialite = S_Orthopedie
    /\ StoredData[2].specialite = S_ORL
    /\ response.items = <<S_ORL, S_Orthopedie>>

\* The category asked of lister_actes_specialite.
AskedCategory == Get(call.arguments, "specialite", <<>>)

\* The places of the records whose category holds the asked one, case
\* apart.
InCategory ==
    {i \in DOMAIN LoadedData.data :
        Contains(Lower(AskedCategory), Lower(LoadedData.data[i].specialite))}

\* C15: lister_actes_specialite returns the sorted, duplicate-free list of
\* the acts of exactly the records whose category contains the asked one,
\* case apart; with no such record it gives the no-result answer and
\* raises nothing.
C15_ActsOfMatchingCategory ==
    Answered("lister_actes_specialite") /\ Loaded =>
        /\ response.kind # "exception"
        /\ InCategory = {} <=> response.kind = "aucun_acte"
        /\ InCategory # {} =>
              /\ response.kind = "actes"
              /\ StrictlySorted(response.items)
              /\ Range(response.items) = {LoadedData.data[i].acte : i \in InCategory}

\* "ortho" was asked; of the records of ORL and of Orthopedie, the act of the
\* second is listed.
C15_Witness ==
    /\ Answered("lister_actes_specialite")
    /\ rfe_file.state = "ok"
    /\ AskedCategory = Str("ortho")
    /\ Len(StoredData) = 2
    /\ StoredData[1].specialite = S_ORL
    /\ StoredData[2].specialite = S_Orthopedie
    /\ response.kind = "actes"
    /\ response.items = <<StoredData[2].acte>>

\* C16: get_recommandations_generales returns the advisory payload embedded
\* in the Dataset when there is one, and the default table only when there
\* is none.
C16_EmbeddedAdvisoryReturned ==
    Answered("recommandations_generales") /\ Loaded =>
        /\ response.kind = "recommandations_generales"
        /\ IF "recommandations_generales" \in DOMAIN LoadedData
              /\ LoadedData["recommandations_generales"] # <<>>
           THEN response.advisory = LoadedData["recommandations_generales"]
           ELSE response.advisory = DefaultReco

\* The act of a stored record, the empty string when it has none.
ActeOf(record) == Get(record, "acte", <<>>)

\* The places of the records that pass the category filter.
PassingCategory ==
    {i \in DOMAIN StoredData :
        \/ AskedSpecialite = None
        \/ AskedSpecialite = <<>>
        \/ Contains(Lower(AskedSpecialite), Lower(StoredData[i].specialite))}

\* Record i of the Dataset is in the answer.
Returned(i) ==
    /\ response.kind = "resultats"
    /\ \E k \in DOMAIN response.blocks : response.blocks[k] = FormatResult(StoredData[i])

\* C22: an empty act on either side matches unconditionally: a call whose
\* acte is empty or missing returns every record that passes the category
\* filter, and a record whose acte is empty or missing is returned for
\* every query that passes the category filter.
C22_EmptyActMatchesAll ==
    Searched =>
        /\ AskedActe = <<>> => \A i \in PassingCategory : Returned(i)
        /\ \A i \in PassingCategory : ActeOf(StoredData[i]) = <<>> => Returned(i)

\* The same for the records that hold the key acte, empty or not.
EmptyActMatchesAllWithKey ==
    Searched /\ (\A i \in DOMAIN StoredData : "acte" \in DOMAIN StoredData[i]) =>
        /\ AskedActe = <<>> => \A i \in PassingCategory : Returned(i)
        /\ \A i \in PassingCategory : ActeOf(StoredData[i]) = <<>> => Returned(i)

(***************************************************************************)
(* Claims on the per-category endpoints                                    *)
(***************************************************************************)
ListedCategories == Range(api_data.metadata.specialites)

\* The files of specialite/ that hold the view of category c.
ViewsOf(c) ==
    {n \in DOMAIN specialite_files : specialite_files[n].specialite.nom = c}

\* The entries of specialites.json for category c.
EntriesOf(c) ==
    {k \in DOMAIN specialites_json.specialites :
        specialites_json.specialites[k].nom = c}

\* How many times a record occurs in a list.
Occurrences(seq, rec) == Cardinality({k \in DOMAIN seq : seq[k] = rec})

RECURSIVE OccurrencesInViews(_, _)
\* How many times a record occurs in the files named, taken together.
OccurrencesInViews(names, rec) ==
    IF names = {} THEN 0
    ELSE LET n == CHOOSE m \in names : TRUE
         IN  Occurrences(specialite_files[n].recommandations, rec)
                 + OccurrencesInViews(names \ {n}, rec)

\* C6: once both generators have run, every category of the metadata has
\* exactly one view, in a file of its own, and exactly one entry in the
\* category list; a category without records has an empty record list and
\* a count and total of 0.
C6_OneViewPerCategory ==
    api_pc = "generated" =>
        \A c \in ListedCategories :
            /\ Cardinality(ViewsOf(c)) = 1
            /\ Cardinality(EntriesOf(c)) = 1
            /\ (\A k \in DOMAIN api_data.data : api_data.data[k].specialite # c) =>
                  /\ \A n \in ViewsOf(c) :
                        /\ specialite_files[n].recommandations = <<>>
                        /\ specialite_files[n].total = 0
                  /\ \A k \in EntriesOf(c) :
                        specialites_json.specialites[k].count = 0

\* C7: the record lists of the views written, taken together, are the
\* records of the Dataset as a multiset: none lost, none duplicated.
C7_ViewsPartitionRecords ==
    api_pc = "generated" =>
        \A rec \in Range(api_data.data) :
            OccurrencesInViews(DOMAIN specialite_files, rec)
                = Occurrences(api_data.data, rec)

(***************************************************************************)
(* Claims on the server process                                            *)
(***************************************************************************)
\* A step of an invocation of call_tool, whichever it is.
QueryStep == \E i \in Slots : Invoke(i) \/ Load(i) \/ Answer(i) \/ Return(i)

\* The answer call_tool gives when it runs alone with the data the
\* invocation loaded and the invocation's request.
AnswerAlone(i) ==
    Dispatch(invocations[i].loaded, invocations[i].call.name,
             invocations[i].call.arguments)

\* No step of an invocation writes the persisted file or changes the data
\* an invocation holds.
DatasetUntouched ==
    /\ server_file' = server_file
    /\ \A j \in Slots :
          invocations[j].pc \in {"loaded", "answered"} /\ invocations'[j].pc # "idle"
              => invocations'[j].loaded = invocations[j].loaded

\* C17: under any interleaving of the invocations of call_tool, no query
\* step modifies the Dataset (the persisted file, the data an invocation
\* loaded), and each invocation answers as it would alone on the Dataset it
\* loaded with its arguments.
C17_ConcurrentQueriesIsolated ==
    /\ [](\A i \in Slots :
             invocations[i].pc = "answered" => invocations[i].response = AnswerAlone(i))
    /\ [][QueryStep => DatasetUntouched]_vars

\* Two invocations of the same request are in flight with different data:
\* the second has answered from its Dataset while the first, which loaded
\* another, has not answered yet.
C17_Witness ==
    /\ invocations[1].pc = "loaded"
    /\ invocations[2].pc = "answered"
    /\ invocations[1].call = invocations[2].call
    /\ invocations[1].call.name = "lister_specialites"
    /\ invocations[1].loaded.raised = None
    /\ invocations[2].loaded.raised = None
    /\ invocations[1].loaded # invocations[2].loaded

\* C18: the Dataset is loaded once for the process: two invocations with
\* equal name and arguments give equal answers, whatever has become of the
\* persisted file between them.
C18_SnapshotLoadedOnce ==
    \A i, j \in Slots :
        /\ invocations[i].pc = "answered"
        /\ invocations[j].pc = "answered"
        /\ invocations[i].call = invocations[j].call
        => invocations[i].response = invocations[j].response

====
